---- MODULE Spec2Model ----
(***************************************************************************)
(* SPRA (Smart Production Resource Allocator): the MRP routes of           *)
(* src/app.py over the tables of src/models.py.                            *)
(*                                                                         *)
(* Quantities (Float columns) are modelled as integers.  Instants          *)
(* (DateTime columns) are integers counting ticks, TicksPerDay ticks to a  *)
(* day, so that timedelta.days has something to floor.  Foreign keys are   *)
(* taken as declared in src/models.py: a row references an existing row.   *)
(***************************************************************************)
EXTENDS Integers, Sequences, FiniteSets, TLC

VARIABLES
    components,   \* table components: id -> row (the columns generate_mrp reads)
    horn_types,   \* table horn_types: the ids present
    bom,          \* table horn_type_components: set of rows
    orders,       \* tables orders + order_line_items: id -> row with line_items
    config,       \* table production_config: set of rows (empty or one row)
    plans,        \* table mrp_plans: set of rows
    now,          \* datetime.utcnow(), in ticks
    last,         \* the response of the request handled last
    transactions, \* table inventory_transactions: the rows in insertion order
    procs         \* the requests in flight, each with its own session

vars == <<components, horn_types, bom, orders, config, plans, now, last, transactions, procs>>

----------------------------------------------------------------------------
(* Bounds of the model *)

TicksPerDay == 2
MaxInventory == 2
MaxQuantity == 3
MaxTransactions == 2
MaxPlanId == 6

CompIds == {1, 2}
HornTypeIds == {1, 2}
OrderIds == {1}

----------------------------------------------------------------------------
(* Python builtins used by the routes *)

Max(a, b) == IF a >= b THEN a ELSE b

Min(a, b) == IF a <= b THEN a ELSE b

\* math.ceil(a / b) for b > 0
Ceil(a, b) == -((-a) \div b)

\* timedelta(days=n)
timedelta(n) == n * TicksPerDay

\* (end - start).days: timedelta normalises to days = floor, 0 <= seconds < 86400
days(delta) == delta \div TicksPerDay

RECURSIVE SumSeq(_, _)
\* sum(item.quantity for item in self.line_items)
SumSeq(line_items, i) ==
    IF i > Len(line_items) THEN 0
    ELSE line_items[i].quantity + SumSeq(line_items, i + 1)

total_quantity(order) == SumSeq(order.line_items, 1)

----------------------------------------------------------------------------
(* calculate_working_days *)

calculate_working_days_no_partial_week(start_date, end_date, working_days_per_week) ==
    LET total_days == days(end_date - start_date)
    IN (total_days \div 7) * working_days_per_week

calculate_working_days_abs(start_date, end_date, working_days_per_week) ==
    LET signed == days(end_date - start_date)
        total_days == IF signed < 0 THEN -signed ELSE signed
    IN (total_days \div 7) * working_days_per_week
           + Min(total_days % 7, working_days_per_week)

calculate_working_days(start_date, end_date, working_days_per_week) ==
    LET total_days == days(end_date - start_date)
        weeks == total_days \div 7
        remaining_days == total_days % 7
        working_days == weeks * working_days_per_week
    IN working_days + Min(remaining_days, working_days_per_week)

----------------------------------------------------------------------------
(* BOM explosion: the loop of generate_mrp over line items and BOM rows *)

EmptyRequirements == [k \in {} |-> 0]

RECURSIVE add_bom_items(_, _, _)
\* for bom_item in horn_type.bom_components: requirements[component_id] += ...
add_bom_items(requirements, bom_components, quantity) ==
    IF bom_components = {} THEN requirements
    ELSE LET bom_item == CHOOSE r \in bom_components : TRUE
             cid == bom_item.component_id
             old == IF cid \in DOMAIN requirements THEN requirements[cid] ELSE 0
             added == [k \in (DOMAIN requirements) \cup {cid} |->
                          IF k = cid THEN old + quantity * bom_item.quantity_per_horn
                          ELSE requirements[k]]
         IN add_bom_items(added, bom_components \ {bom_item}, quantity)

RECURSIVE explode_from(_, _, _, _, _)
explode_from(line_items, i, requirements, bom_rows, horn_type_ids) ==
    IF i > Len(line_items) THEN requirements
    ELSE LET line_item == line_items[i]
         IN IF line_item.horn_type_id \notin horn_type_ids
            THEN explode_from(line_items, i + 1, requirements, bom_rows, horn_type_ids)
            ELSE explode_from(line_items, i + 1,
                     add_bom_items(requirements,
                         {r \in bom_rows : r.horn_type_id = line_item.horn_type_id},
                         line_item.quantity),
                     bom_rows, horn_type_ids)

component_requirements_first_only(line_items, bom_rows, horn_type_ids) ==
    explode_from(SubSeq(line_items, 1, 1), 1, EmptyRequirements, bom_rows, horn_type_ids)

component_requirements(line_items, bom_rows, horn_type_ids) ==
    explode_from(line_items, 1, EmptyRequirements, bom_rows, horn_type_ids)

no_requirements_unchecked(requirements) == FALSE

\* if not component_requirements
no_requirements(requirements) == DOMAIN requirements = {}

----------------------------------------------------------------------------
(* Net requirement, lot sizing, max-stock cap *)

net_requirement_unfloored(total_required, current_inventory) ==
    total_required - current_inventory

net_requirement(total_required, current_inventory) ==
    Max(0, total_required - current_inventory)

lot_size_at_least_moq(net, minimum_order_quantity) ==
    IF net > 0 THEN Max(net, minimum_order_quantity) ELSE 0

lot_size(net, minimum_order_quantity) ==
    IF net > 0
    THEN IF minimum_order_quantity > 0
         THEN Ceil(net, minimum_order_quantity) * minimum_order_quantity
         ELSE net
    ELSE 0

cap_max_stock_never(order_quantity, max_stock_level, current_inventory) ==
    order_quantity

cap_max_stock(order_quantity, max_stock_level, current_inventory) ==
    IF max_stock_level > 0
    THEN LET max_order == max_stock_level - current_inventory
         IN IF order_quantity > max_order THEN max_order ELSE order_quantity
    ELSE order_quantity

----------------------------------------------------------------------------
(* Capacity check *)

daily_production_floor(quantity, working_days) == quantity \div working_days

daily_production(quantity, working_days) == Ceil(quantity, working_days)

required_days(quantity, capacity) == Ceil(quantity, capacity)

capacity_exceeded_inclusive(required_daily, capacity) == required_daily >= capacity

capacity_exceeded(required_daily, capacity) == required_daily > capacity

----------------------------------------------------------------------------
(* Back-scheduling *)

production_start_twice_safety(order_date, safety_stock_days) ==
    order_date + timedelta(safety_stock_days) + timedelta(safety_stock_days)

production_start(order_date, safety_stock_days) ==
    order_date + timedelta(safety_stock_days)

order_date_calculated_unclamped(start, lead_time_days, safety_stock_days, utcnow) ==
    start - timedelta(lead_time_days + safety_stock_days)

order_date_calculated(start, lead_time_days, safety_stock_days, utcnow) ==
    LET days_before_production == lead_time_days + safety_stock_days
        calculated == start - timedelta(days_before_production)
    IN IF calculated < utcnow THEN utcnow ELSE calculated

expected_delivery(order_date, lead_time_days) ==
    order_date + timedelta(lead_time_days)

----------------------------------------------------------------------------
(* The session of one request *)

\* MRPPlan.query.filter_by(order_id=order_id).delete(): the rows left in the session
delete_plans_keeps_all(rows, order_id) == rows

delete_plans_of_every_order(rows, order_id) == {}

delete_plans(rows, order_id) == {p \in rows : p.order_id # order_id}

\* A return without db.session.commit(): the request's session is removed at
\* teardown and the database keeps the committed rows.
teardown_session_commits(committed, session) == session

teardown_session(committed, session) == committed

\* The id of the next row of a table whose primary key is an INTEGER rowid
next_id(rows) ==
    IF rows = {} THEN 1
    ELSE 1 + (CHOOSE m \in {p.id : p \in rows} : \A p \in rows : p.id <= m)

\* Component.query.filter(Component.id.in_(component_ids)).all()
components_in(component_ids) == {c \in DOMAIN components : c \in component_ids}

\* One MRPPlan row: the body of the loop over components
mrp_plan(id, order_id, cid, total_required, order, cfg, utcnow) ==
    LET component == components[cid]
        net == net_requirement(total_required, component.current_inventory)
        order_quantity == cap_max_stock(lot_size(net, component.minimum_order_quantity),
                              component.max_stock_level, component.current_inventory)
        start == production_start(order.order_date, cfg.safety_stock_days)
        order_date == order_date_calculated(start, component.lead_time_days,
                          cfg.safety_stock_days, utcnow)
    IN [id |-> id,
        order_id |-> order_id,
        component_id |-> cid,
        total_required |-> total_required,
        current_inventory |-> component.current_inventory,
        net_requirement |-> net,
        order_quantity |-> order_quantity,
        order_date |-> order_date,
        expected_delivery |-> expected_delivery(order_date, component.lead_time_days),
        estimated_cost |-> order_quantity * component.unit_cost,
        status |-> "planned"]

\* The rows the loop adds to the session, ids given in the order of the query
new_plans(session, order_id, requirements, order, cfg, utcnow) ==
    LET found == components_in(DOMAIN requirements)
        base == next_id(session)
        rank(c) == Cardinality({d \in found : d < c})
    IN {mrp_plan(base + rank(c), order_id, c, requirements[c], order, cfg, utcnow) : c \in found}

----------------------------------------------------------------------------
(* Responses *)

\* No request in flight
NoProcs == [k \in {} |-> 0]

\* The "summary" of a response that has none
NoSummary ==
    [order_quantity |-> 0, working_days |-> 0, daily_production |-> 0,
     production_start |-> 0, total_components |-> 0, components_to_order |-> 0,
     total_estimated_cost |-> 0]

Response(op, order_id, error, requirements, total_days, working_days, daily, required, available, pre) ==
    [op |-> op, order_id |-> order_id, error |-> error,
     requirements |-> requirements, total_days |-> total_days,
     working_days |-> working_days, daily_production |-> daily,
     required_days |-> required, available_days |-> available,
     pre_plans |-> pre, after_success |-> FALSE, written |-> {}, summary |-> NoSummary,
     plan_id |-> 0, pre_status |-> "", pre_components |-> <<>>, pre_transactions |-> <<>>,
     observed |-> {}, component_id |-> 0]

Other(op) == Response(op, 0, "none", EmptyRequirements, 0, 0, 0, 0, 0, {})

\* The response of a route that does not touch mrp_plans, with the rows it found
Kept(op) == [Other(op) EXCEPT !.pre_plans = plans]

RECURSIVE total_cost(_)
\* sum(plan.estimated_cost for plan in mrp_plans)
total_cost(mrp_plans) ==
    IF mrp_plans = {} THEN 0
    ELSE LET plan == CHOOSE p \in mrp_plans : TRUE
         IN plan.estimated_cost + total_cost(mrp_plans \ {plan})

components_to_order_counts_all(mrp_plans) == Cardinality(mrp_plans)

\* sum(1 for plan in mrp_plans if plan.order_quantity > 0)
components_to_order(mrp_plans) == Cardinality({p \in mrp_plans : p.order_quantity > 0})

\* The "summary" of the response of a successful generation
summary(quantity, working_days, daily, start, found, mrp_plans) ==
    [order_quantity |-> quantity, working_days |-> working_days,
     daily_production |-> daily, production_start |-> start,
     total_components |-> Cardinality(found),
     components_to_order |-> components_to_order(mrp_plans),
     total_estimated_cost |-> total_cost(mrp_plans)]

\* Whether the request before this one was a successful generate_mrp of the order
repeats(response, order_id) ==
    response.op = "generate_mrp" /\ response.error = "none" /\ response.order_id = order_id

----------------------------------------------------------------------------
(* POST /api/mrp/generate/<order_id> *)

generate_mrp(order_id) ==
    /\ order_id \in DOMAIN orders
    /\ next_id(delete_plans(plans, order_id)) <= MaxPlanId
    /\ LET order == orders[order_id]
           Reply(error, requirements, total_days, working_days, daily, required, available) ==
               Response("generate_mrp", order_id, error, requirements, total_days,
                        working_days, daily, required, available, plans)
       IN IF config = {}
          THEN /\ last' = Reply("ConfigMissing", EmptyRequirements, 0, 0, 0, 0, 0)
               /\ plans' = plans
          ELSE
          LET cfg == CHOOSE r \in config : TRUE
              requirements == component_requirements(order.line_items, bom, horn_types)
          IN IF no_requirements(requirements)
             THEN /\ last' = Reply("EmptyDemand", requirements, 0, 0, 0, 0, 0)
                  /\ plans' = plans
             ELSE
             LET session == delete_plans(plans, order_id)
                 quantity == total_quantity(order)
                 total_days == days(order.deadline - order.order_date)
                 working_days == calculate_working_days(order.order_date, order.deadline,
                                     cfg.working_days_per_week)
             IN IF working_days <= 0
                THEN /\ last' = Reply("InfeasibleSchedule", requirements, total_days,
                                      working_days, 0, 0, 0)
                     /\ plans' = teardown_session(plans, session)
                ELSE
                LET daily == daily_production(quantity, working_days)
                IN IF capacity_exceeded(daily, cfg.daily_production_capacity)
                   THEN /\ last' = Reply("CapacityExceeded", requirements, total_days,
                                         working_days, daily,
                                         required_days(quantity, cfg.daily_production_capacity),
                                         working_days)
                        /\ plans' = teardown_session(plans, session)
                   ELSE
                   LET mrp_plans == new_plans(session, order_id, requirements, order, cfg, now)
                       start == production_start(order.order_date, cfg.safety_stock_days)
                   IN /\ last' = [Reply("none", requirements, total_days, working_days,
                                         daily, 0, 0)
                                  EXCEPT !.written = mrp_plans,
                                         !.after_success = repeats(last, order_id),
                                         !.summary = summary(quantity, working_days, daily,
                                             start, components_in(DOMAIN requirements),
                                             mrp_plans)]
                      /\ plans' = session \cup mrp_plans
    /\ UNCHANGED <<components, horn_types, bom, orders, config, now, transactions, procs>>

----------------------------------------------------------------------------
(* The other routes that write the tables generate_mrp reads *)

\* The databases of config.py
Databases == {"sqlite", "postgresql"}

\* A db.ForeignKey column: PostgreSQL rejects a row whose id is not in the
\* referenced table; SQLite, opened without PRAGMA foreign_keys, accepts it
foreign_key(database, id, ids) == database = "postgresql" => id \in ids

\* PUT /api/components/<id> with {"current_inventory": value}
update_component(cid, value) ==
    /\ cid \in DOMAIN components
    /\ components' = [components EXCEPT ![cid].current_inventory = value]
    /\ last' = Kept("update_component")
    /\ UNCHANGED <<horn_types, bom, orders, config, plans, now, transactions, procs>>

\* POST /api/horn-types/<id>/components
add_component_to_horn_type(horn_type_id, component_id, quantity_per_horn) ==
    /\ horn_type_id \in horn_types
    /\ \E database \in Databases : foreign_key(database, component_id, DOMAIN components)
    /\ ~ \E r \in bom : r.horn_type_id = horn_type_id /\ r.component_id = component_id
    /\ bom' = bom \cup {[horn_type_id |-> horn_type_id, component_id |-> component_id,
                         quantity_per_horn |-> quantity_per_horn]}
    /\ last' = Kept("add_component_to_horn_type")
    /\ UNCHANGED <<components, horn_types, orders, config, plans, now, transactions, procs>>

\* DELETE /api/horn-types/<id>/components/<component_id>
remove_component_from_horn_type(horn_type_id, component_id) ==
    /\ \E r \in bom : r.horn_type_id = horn_type_id /\ r.component_id = component_id
    /\ bom' = {r \in bom : ~(r.horn_type_id = horn_type_id /\ r.component_id = component_id)}
    /\ last' = Kept("remove_component_from_horn_type")
    /\ UNCHANGED <<components, horn_types, orders, config, plans, now, transactions, procs>>

\* PUT /api/orders/<id> with {"deadline": ...} or {"line_items": [...]}
update_order(order_id, key, value) ==
    /\ order_id \in DOMAIN orders
    /\ \/ /\ key = "deadline"
          /\ orders' = [orders EXCEPT ![order_id].deadline = value]
       \/ /\ key = "line_items"
          /\ \E database \in Databases :
                 \A i \in 1..Len(value) :
                     foreign_key(database, value[i].horn_type_id, horn_types)
          /\ orders' = [orders EXCEPT ![order_id].line_items = value]
    /\ last' = Other("update_order")
    /\ UNCHANGED <<components, horn_types, bom, config, plans, now, transactions, procs>>

DefaultConfig ==
    [daily_production_capacity |-> 4000, working_days_per_week |-> 6,
     max_inventory_days |-> 30, safety_stock_days |-> 3]

\* The column defaults of ProductionConfig()
ColumnDefaults(daily_production_capacity) ==
    [daily_production_capacity |-> daily_production_capacity, working_days_per_week |-> 6,
     max_inventory_days |-> 30, safety_stock_days |-> 3]

\* GET /api/production-config
get_production_config ==
    /\ config' = IF config = {} THEN {DefaultConfig} ELSE config
    /\ last' = Other("get_production_config")
    /\ UNCHANGED <<components, horn_types, bom, orders, plans, now, transactions, procs>>

\* PUT /api/production-config with {"daily_production_capacity": value}
update_production_config(value) ==
    /\ config' = IF config = {} THEN {ColumnDefaults(value)}
                 ELSE {[r EXCEPT !.daily_production_capacity = value] : r \in config}
    /\ last' = Other("update_production_config")
    /\ UNCHANGED <<components, horn_types, bom, orders, plans, now, transactions, procs>>

----------------------------------------------------------------------------
(* The routes that move inventory *)

\* The JSON bodies of PUT /api/mrp/<id>/status: {} or {"status": s}
StatusRequests == {{}} \cup {{s} : s \in {"planned", "ordered", "received"}}

new_status_ignores_request(data, status) == status

\* data.get('status', plan.status)
new_status(data, status) == IF data = {} THEN status ELSE CHOOSE s \in data : TRUE

set_status_clears_quantity(plan, status) ==
    [plan EXCEPT !.status = status,
                 !.order_quantity = IF status = "received" THEN 0 ELSE @]

\* plan.status = ...
set_status(plan, status) == [plan EXCEPT !.status = status]

posts_receipt_once_ordered(status) == status \in {"ordered", "received"}

\* if plan.status == 'received'
posts_receipt(status) == status = "received"

receipt_balance_before(inventory, quantity) == inventory

\* component.current_inventory += plan.order_quantity
receipt_balance(inventory, quantity) == inventory + quantity

\* One InventoryTransaction row
InventoryTransaction(id, component_id, type, quantity, balance_after, reference, notes) ==
    [id |-> id, component_id |-> component_id, transaction_type |-> type,
     quantity |-> quantity, balance_after |-> balance_after,
     reference |-> reference, notes |-> notes]

\* The response of a route that moves inventory, with the rows it found
Moved(op, plan_id, status) ==
    [Other(op) EXCEPT !.pre_plans = plans, !.pre_components = components,
                      !.pre_transactions = transactions, !.plan_id = plan_id,
                      !.pre_status = status]

\* PUT /api/mrp/<plan_id>/status
update_mrp_status(plan_id, data) ==
    /\ \E plan \in plans :
          /\ plan.id = plan_id
          /\ LET status == new_status(data, plan.status)
                 updated == set_status(plan, status)
                 cid == plan.component_id
             IN /\ plans' = (plans \ {plan}) \cup {updated}
                /\ IF posts_receipt(status) /\ cid \in DOMAIN components
                   THEN LET balance == receipt_balance(components[cid].current_inventory,
                                                       updated.order_quantity)
                        IN /\ Len(transactions) < MaxTransactions
                           /\ components' = [components EXCEPT ![cid].current_inventory = balance]
                           /\ transactions' = Append(transactions,
                                  InventoryTransaction(Len(transactions) + 1, cid, "receipt",
                                      updated.order_quantity, balance,
                                      <<"MRP", plan.id>>, <<"Order", plan.order_id>>))
                   ELSE UNCHANGED <<components, transactions>>
                /\ last' = Moved("update_mrp_status", plan_id, plan.status)
    /\ UNCHANGED <<horn_types, bom, orders, config, now, procs>>

\* POST /api/inventory/adjust
adjust_inventory(component_id, adjustment) ==
    /\ component_id \in DOMAIN components
    /\ Len(transactions) < MaxTransactions
    /\ LET balance == components[component_id].current_inventory + adjustment
       IN /\ components' = [components EXCEPT ![component_id].current_inventory = balance]
          /\ transactions' = Append(transactions,
                 InventoryTransaction(Len(transactions) + 1, component_id, "adjustment",
                     adjustment, balance, <<>>, <<>>))
    /\ last' = Moved("adjust_inventory", 0, "")
    /\ UNCHANGED <<horn_types, bom, orders, config, plans, now, procs>>

----------------------------------------------------------------------------
(* The routes that delete *)

\* The value of a column set to NULL
None == 0

not_null_unchecked(children) == FALSE

\* nullable=False: the UPDATE that sets the column of a row to NULL fails
not_null_violation(children) == children # {}

\* db.session.delete of a parent whose relationship has no delete cascade: the
\* rows that reference it get their component_id set to NULL
nullify(rows, component_id) ==
    {[r EXCEPT !.component_id = IF @ = component_id THEN None ELSE @] : r \in rows}

\* DELETE /api/components/<id>
delete_component(component_id) ==
    /\ component_id \in DOMAIN components
    /\ LET assignments == {r \in bom : r.component_id = component_id}
           mrp_plans == {p \in plans : p.component_id = component_id}
           ledger == {transactions[i] : i \in {j \in DOMAIN transactions :
                         transactions[j].component_id = component_id}}
       IN IF not_null_violation(assignments \cup mrp_plans \cup ledger)
          THEN /\ last' = [Moved("delete_component", 0, "") EXCEPT
                              !.error = "IntegrityError", !.component_id = component_id]
               /\ UNCHANGED <<components, bom, plans, transactions>>
          ELSE /\ components' = [c \in DOMAIN components \ {component_id} |-> components[c]]
               /\ bom' = nullify(bom, component_id)
               /\ plans' = nullify(plans, component_id)
               /\ transactions' = [i \in DOMAIN transactions |->
                      [transactions[i] EXCEPT !.component_id =
                           IF @ = component_id THEN None ELSE @]]
               /\ last' = [Moved("delete_component", 0, "") EXCEPT
                              !.component_id = component_id]
    /\ UNCHANGED <<horn_types, orders, config, now, procs>>

\* DELETE /api/horn-types/<id>: cascade='all, delete-orphan' on bom_components
\* and order_line_items
delete_horn_type(horn_type_id) ==
    /\ horn_type_id \in horn_types
    /\ horn_types' = horn_types \ {horn_type_id}
    /\ bom' = {r \in bom : r.horn_type_id # horn_type_id}
    /\ orders' = [o \in DOMAIN orders |->
           [orders[o] EXCEPT !.line_items =
                SelectSeq(@, LAMBDA item : item.horn_type_id # horn_type_id)]]
    /\ last' = Kept("delete_horn_type")
    /\ UNCHANGED <<components, config, plans, now, transactions, procs>>

\* DELETE /api/orders/<id>: cascade='all, delete-orphan' on line_items and mrp_plans
delete_order(order_id) ==
    /\ order_id \in DOMAIN orders
    /\ orders' = [o \in DOMAIN orders \ {order_id} |-> orders[o]]
    /\ plans' = {p \in plans : p.order_id # order_id}
    /\ last' = Moved("delete_order", 0, "")
    /\ UNCHANGED <<components, horn_types, bom, config, now, transactions, procs>>

----------------------------------------------------------------------------
(* Spec: the routes, from a database with two components, two horn types
   with empty BOMs, one order and no production config *)

Component(inventory, max_stock, moq, lead, cost) ==
    [current_inventory |-> inventory, max_stock_level |-> max_stock,
     minimum_order_quantity |-> moq, lead_time_days |-> lead, unit_cost |-> cost]

LineItem(horn_type_id, quantity) == [horn_type_id |-> horn_type_id, quantity |-> quantity]

Order(order_date, deadline, line_items) ==
    [order_date |-> order_date, deadline |-> deadline, line_items |-> line_items]

BomRow(horn_type_id, component_id, quantity_per_horn) ==
    [horn_type_id |-> horn_type_id, component_id |-> component_id,
     quantity_per_horn |-> quantity_per_horn]

\* The requests of Spec
BomRequests == {BomRow(1, 1, 2), BomRow(1, 2, 1), BomRow(2, 1, 1)}
LineItemRequests == {<<LineItem(1, 1)>>, <<LineItem(1, 1), LineItem(2, 2)>>}
DeadlineRequests == {timedelta(0), timedelta(1)}
CapacityRequests == {1}

Init ==
    /\ components = (1 :> Component(0, 0, 0, 1, 2)) @@ (2 :> Component(0, 2, 2, 2, 3))
    /\ horn_types = HornTypeIds
    /\ bom = {}
    /\ orders = [o \in OrderIds |-> Order(0, timedelta(1), <<LineItem(1, 1)>>)]
    /\ config = {}
    /\ plans = {}
    /\ transactions = <<>>
    /\ procs = NoProcs
    /\ now = timedelta(1)
    /\ last = Other("init")

Next ==
    \/ \E o \in OrderIds : generate_mrp(o)
    \/ \E c \in CompIds, v \in 0..MaxInventory : update_component(c, v)
    \/ \E r \in BomRequests :
           add_component_to_horn_type(r.horn_type_id, r.component_id, r.quantity_per_horn)
    \/ \E h \in HornTypeIds, c \in CompIds : remove_component_from_horn_type(h, c)
    \/ \E o \in OrderIds, d \in DeadlineRequests : update_order(o, "deadline", d)
    \/ \E o \in OrderIds, l \in LineItemRequests : update_order(o, "line_items", l)
    \/ get_production_config
    \/ \E v \in CapacityRequests : update_production_config(v)

Spec == Init /\ [][Next]_vars

----------------------------------------------------------------------------
(* SpecLotSizing: generate_mrp applied to every stock position of the two
   components of one horn type *)

NextGenerate == \E o \in OrderIds : generate_mrp(o)

StockPositions ==
    {Component(i, m, q, 1, 2) : i \in 0..MaxInventory, m \in 0..MaxInventory,
                                q \in 0..MaxQuantity}

InitLotSizing ==
    /\ components \in [CompIds -> StockPositions]
    /\ horn_types = HornTypeIds
    /\ bom = {BomRow(1, 1, 1), BomRow(1, 2, 2)}
    /\ \E q \in 1..MaxQuantity :
           orders = [o \in OrderIds |-> Order(0, timedelta(14), <<LineItem(1, q)>>)]
    /\ config = {DefaultConfig}
    /\ plans = {}
    /\ transactions = <<>>
    /\ procs = NoProcs
    /\ now = timedelta(1)
    /\ last = Other("init")

SpecLotSizing == InitLotSizing /\ [][NextGenerate]_vars

----------------------------------------------------------------------------
(* SpecCalendar: generate_mrp applied to every deadline, week length,
   capacity and order size *)

MaxPastDays == 15
MaxDays == 60

WeekLengths == 1..7
Capacities == {1, 2, 3000}
OrderSizes == {1, 3, 200000}

InitCalendar ==
    /\ components = (1 :> Component(0, 0, 0, 1, 2)) @@ (2 :> Component(0, 2, 2, 2, 3))
    /\ horn_types = HornTypeIds
    /\ bom = {BomRow(1, 1, 1)}
    /\ \E start \in 0..(TicksPerDay - 1),
          delta \in (-timedelta(MaxPastDays))..timedelta(MaxDays),
          q \in OrderSizes :
           orders = [o \in OrderIds |-> Order(start, start + delta, <<LineItem(1, q)>>)]
    /\ \E w \in WeekLengths, c \in Capacities :
           config = {[DefaultConfig EXCEPT !.working_days_per_week = w,
                                           !.daily_production_capacity = c]}
    /\ plans = {}
    /\ transactions = <<>>
    /\ procs = NoProcs
    /\ now = timedelta(1)
    /\ last = Other("init")

SpecCalendar == InitCalendar /\ [][NextGenerate]_vars

----------------------------------------------------------------------------
(* SpecExplosion: generate_mrp applied to every BOM of two horn types over
   two components and every order of one or two line items *)

PerHorn == {1, 2}
LineQuantities == {1, 50, 100}

Boms ==
    {b \in SUBSET {BomRow(h, c, q) : h \in HornTypeIds, c \in CompIds, q \in PerHorn} :
        \A r1, r2 \in b :
            (r1.horn_type_id = r2.horn_type_id /\ r1.component_id = r2.component_id)
                => r1 = r2}

LineItems == {LineItem(h, q) : h \in HornTypeIds, q \in LineQuantities}

InitExplosion ==
    /\ components = (1 :> Component(0, 0, 0, 1, 2)) @@ (2 :> Component(0, 2, 2, 2, 3))
    /\ horn_types = HornTypeIds
    /\ bom \in Boms
    /\ \E l \in {<<a>> : a \in LineItems} \cup {<<a, b>> : a \in LineItems, b \in LineItems} :
           orders = [o \in OrderIds |-> Order(0, timedelta(14), l)]
    /\ config = {DefaultConfig}
    /\ plans = {}
    /\ transactions = <<>>
    /\ procs = NoProcs
    /\ now = timedelta(1)
    /\ last = Other("init")

SpecExplosion == InitExplosion /\ [][NextGenerate]_vars

----------------------------------------------------------------------------
(* The claims.  `last` is the response of the request just handled, so a
   formula about a generate_mrp call reads the state right after it. *)

Generated == last.op = "generate_mrp"

Succeeded == Generated /\ last.error = "none"

TheOrder == orders[last.order_id]

TheConfig == CHOOSE r \in config : TRUE

PlansOf(rows, order_id) == {p \in rows : p.order_id = order_id}

\* The components referenced by the BOMs of the horn types of an order's line items
Referenced(order) ==
    {r.component_id : r \in {b \in bom : \E i \in 1..Len(order.line_items) :
                                 order.line_items[i].horn_type_id = b.horn_type_id}}

\* C1: after a generate_mrp that is not rejected, the order's persisted plans are
\* exactly one per distinct component referenced by the BOMs of its line items,
\* each holding the inventory at planning time and
\* net_requirement = max(0, total_required - that inventory).
C1_OnePlanPerComponent ==
    Succeeded =>
        LET mine == PlansOf(plans, last.order_id)
            referenced == Referenced(TheOrder)
        IN /\ referenced # {}
           /\ \A c \in referenced : Cardinality({p \in mine : p.component_id = c}) = 1
           /\ \A p \in mine : p.component_id \in referenced
           /\ \A p \in mine :
                  /\ p.current_inventory = components[p.component_id].current_inventory
                  /\ p.net_requirement =
                         IF p.total_required > p.current_inventory
                         THEN p.total_required - p.current_inventory ELSE 0

\* A regeneration over an older plan set, two components planned, one covered by
\* stock and one not
C1_Witness ==
    /\ Succeeded
    /\ PlansOf(last.pre_plans, last.order_id) # {}
    /\ Cardinality(PlansOf(plans, last.order_id)) = 2
    /\ \E p \in plans : p.net_requirement = 0 /\ p.current_inventory > 0
    /\ \E p \in plans : p.net_requirement > 0

\* C2: every persisted MRPPlan has order_quantity >= 0, also when the component's
\* inventory already exceeds its max_stock_level (> 0) at planning time.
C2_OrderQuantityNonNegative ==
    \A p \in plans : p.order_quantity >= 0

\* C3: a plan of a component with max_stock_level > 0 has
\* order_quantity <= max(0, max_stock_level - current_inventory at planning time).
C3_WithinHeadroom ==
    Succeeded =>
        \A p \in PlansOf(plans, last.order_id) :
            LET component == components[p.component_id]
                headroom == component.max_stock_level - p.current_inventory
            IN component.max_stock_level > 0 =>
                   p.order_quantity <= (IF headroom > 0 THEN headroom ELSE 0)

\* The cap applies: the lot-sized quantity is above a positive headroom
C3_Witness ==
    /\ Succeeded
    /\ \E p \in plans :
           LET component == components[p.component_id]
               headroom == component.max_stock_level - p.current_inventory
           IN /\ component.max_stock_level > 0
              /\ headroom > 0
              /\ p.net_requirement > headroom
              /\ p.order_quantity = headroom

\* C4: a plan of a component with minimum_order_quantity > 0 and
\* net_requirement > 0 has an order_quantity that is a non-negative whole multiple
\* of minimum_order_quantity, also when the max-stock cap applies.
C4_MultipleOfMoq ==
    \A p \in plans :
        LET component == components[p.component_id]
        IN (component.minimum_order_quantity > 0 /\ p.net_requirement > 0) =>
               /\ p.order_quantity >= 0
               /\ p.order_quantity % component.minimum_order_quantity = 0

\* C5: a rejected generate_mrp (no production config, empty BOM explosion,
\* working days <= 0, capacity exceeded) leaves the persisted MRPPlan rows exactly
\* as they were before the call.
C5_AllOrNothing ==
    (Generated /\ last.error # "none") => plans = last.pre_plans

\* A rejection after the delete of the order's old plans was issued
C5_Witness ==
    /\ Generated
    /\ last.error = "CapacityExceeded"
    /\ PlansOf(last.pre_plans, last.order_id) # {}
    /\ plans = last.pre_plans

\* C6: required_daily = ceil(Q / W_days); the generation is rejected iff
\* required_daily > C, and then reports required_days = ceil(Q / C) and
\* available_days = W_days; Q = 200000, W_days = 50, C = 3000 is rejected with
\* required_daily 4000 and required_days 67.
C6_CapacityCheck ==
    (Generated /\ last.error \in {"none", "CapacityExceeded"}) =>
        LET Q == total_quantity(TheOrder)
            W_days == last.working_days
            C == TheConfig.daily_production_capacity
        IN /\ W_days > 0
           /\ (last.daily_production - 1) * W_days < Q
           /\ Q <= last.daily_production * W_days
           /\ (last.error = "CapacityExceeded") <=> (last.daily_production > C)
           /\ last.error = "CapacityExceeded" =>
                  /\ (last.required_days - 1) * C < Q
                  /\ Q <= last.required_days * C
                  /\ last.available_days = W_days
                  /\ plans = last.pre_plans
           /\ (Q = 200000 /\ W_days = 50 /\ C = 3000) =>
                  /\ last.daily_production = 4000
                  /\ last.error = "CapacityExceeded"
                  /\ last.required_days = 67

\* The example of the specification
C6_Witness ==
    /\ Generated
    /\ total_quantity(TheOrder) = 200000
    /\ last.working_days = 50
    /\ TheConfig.daily_production_capacity = 3000
    /\ last.error = "CapacityExceeded"
    /\ last.required_days = 67

\* The whole days from start to end > start: the d with d days <= end - start < d + 1 days
WholeDays(start, end) ==
    CHOOSE d \in 0..(end - start) :
        d * TicksPerDay <= end - start /\ end - start < (d + 1) * TicksPerDay

\* C7: for start < end and W in 1..7, calculate_working_days(start, end, W) =
\* (total_days div 7) * W + min(total_days mod 7, W), total_days the whole days
\* between start and end: the days of the window whose place in their week is
\* below W; a 7-day window with W = 6 gives 6, a 3-day window with W = 6 gives 3.
C7_WorkingDays ==
    (/\ Generated
     /\ last.error \in {"none", "CapacityExceeded", "InfeasibleSchedule"}
     /\ TheOrder.order_date < TheOrder.deadline
     /\ TheConfig.working_days_per_week \in 1..7) =>
        LET W == TheConfig.working_days_per_week
            total_days == WholeDays(TheOrder.order_date, TheOrder.deadline)
            remainder == total_days % 7
        IN /\ last.working_days =
                  (total_days \div 7) * W + (IF remainder < W THEN remainder ELSE W)
           /\ last.working_days = Cardinality({k \in 0..(total_days - 1) : k % 7 < W})
           /\ (total_days = 7 /\ W = 6) => last.working_days = 6
           /\ (total_days = 3 /\ W = 6) => last.working_days = 3

\* A window of seven days and a part of a day, six working days a week
C7_Witness ==
    /\ Generated
    /\ TheConfig.working_days_per_week = 6
    /\ TheOrder.deadline - TheOrder.order_date = timedelta(7) + 1
    /\ last.working_days = 6

\* C8: for W in 1..7 and total_days <= 0 (the deadline at or before the order's
\* creation date, or less than a day after it) calculate_working_days returns a
\* value <= 0 and generate_mrp rejects with the infeasible-schedule error.
C8_NoWorkingDays ==
    (/\ Generated
     /\ last.error \in {"none", "CapacityExceeded", "InfeasibleSchedule"}
     /\ TheOrder.deadline - TheOrder.order_date < timedelta(1)
     /\ TheConfig.working_days_per_week \in 1..7) =>
        /\ last.total_days <= 0
        /\ last.working_days <= 0
        /\ last.error = "InfeasibleSchedule"
        /\ plans = last.pre_plans

\* A deadline more than a week and a part of a day before the creation date
C8_Witness ==
    /\ Generated
    /\ TheOrder.deadline - TheOrder.order_date = -(timedelta(8) + 1)
    /\ last.total_days = -9
    /\ last.working_days < 0
    /\ last.error = "InfeasibleSchedule"

\* quantity_per_horn of component c in the BOM of horn type h, 0 when absent
PerUnit(h, c) ==
    LET rows == {r \in bom : r.horn_type_id = h /\ r.component_id = c}
    IN IF rows = {} THEN 0 ELSE (CHOOSE r \in rows : TRUE).quantity_per_horn

RECURSIVE Demand(_, _, _)
\* The demand of the first n line items for component c
Demand(line_items, c, n) ==
    IF n = 0 THEN 0
    ELSE Demand(line_items, c, n - 1)
             + line_items[n].quantity * PerUnit(line_items[n].horn_type_id, c)

\* C9: the BOM explosion maps each component to the sum over the order's line
\* items whose horn type's BOM contains it of quantity * quantity_per_horn; 2 per
\* unit * 100 of A plus 1 per unit * 50 of B gives 250; a line item whose horn
\* type has no BOM entries adds nothing and is no error.
C9_BomExplosion ==
    (Generated /\ last.error # "ConfigMissing") =>
        LET line_items == TheOrder.line_items
            referenced == Referenced(TheOrder)
        IN /\ last.requirements =
                  [c \in referenced |-> Demand(line_items, c, Len(line_items))]
           /\ (/\ line_items = <<LineItem(1, 100), LineItem(2, 50)>>
               /\ BomRow(1, 1, 2) \in bom
               /\ BomRow(2, 1, 1) \in bom) => last.requirements[1] = 250
           /\ referenced # {} => last.error # "EmptyDemand"

\* The example of the specification
C9_Witness ==
    /\ Generated
    /\ TheOrder.line_items = <<LineItem(1, 100), LineItem(2, 50)>>
    /\ BomRow(1, 1, 2) \in bom
    /\ BomRow(2, 1, 1) \in bom
    /\ last.requirements[1] = 250

\* C10: when no horn type of the order's line items has a BOM entry, generate_mrp
\* fails with the empty-demand error and persists no plans.
C10_EmptyDemand ==
    (Generated /\ last.error # "ConfigMissing" /\ Referenced(TheOrder) = {}) =>
        /\ last.error = "EmptyDemand"
        /\ plans = last.pre_plans

\* The order was planned before its horn types lost their BOM entries
C10_Witness ==
    /\ Generated
    /\ last.error = "EmptyDemand"
    /\ Referenced(TheOrder) = {}
    /\ PlansOf(last.pre_plans, last.order_id) # {}
    /\ plans = last.pre_plans

----------------------------------------------------------------------------
(* SpecStatus: the life of the plans of one order: generation, status updates
   and the routes that change what the plans were computed from *)

PlanIds == 1..Cardinality(CompIds)
Adjustments == {1}
StockEdits == {3}
BomEdits == {BomRow(1, 2, 1)}

InitStatus ==
    /\ components = (1 :> Component(0, 0, 0, 1, 2)) @@ (2 :> Component(0, 0, 2, 2, 3))
    /\ horn_types = HornTypeIds
    /\ bom = {BomRow(1, 1, 2), BomRow(1, 2, 1)}
    /\ orders = [o \in OrderIds |-> Order(0, timedelta(14), <<LineItem(1, 1)>>)]
    /\ config = {DefaultConfig}
    /\ plans = {}
    /\ transactions = <<>>
    /\ procs = NoProcs
    /\ now = timedelta(1)
    /\ last = Other("init")

NextStatus ==
    \/ \E o \in OrderIds : generate_mrp(o)
    \/ \E i \in PlanIds, d \in StatusRequests : update_mrp_status(i, d)
    \/ \E a \in Adjustments : adjust_inventory(1, a)
    \/ \E v \in StockEdits : update_component(1, v)
    \/ \E r \in BomEdits :
           add_component_to_horn_type(r.horn_type_id, r.component_id, r.quantity_per_horn)
    \/ \E r \in BomEdits : remove_component_from_horn_type(r.horn_type_id, r.component_id)

SpecStatus == InitStatus /\ [][NextStatus]_vars

----------------------------------------------------------------------------
(* The claims about status updates *)

StatusUpdated == last.op = "update_mrp_status"

\* The plan the last update_mrp_status request named, as it is now
ThePlan == CHOOSE p \in plans : p.id = last.plan_id

\* C11: update_mrp_status to 'received' on a plan with order_quantity q raises the
\* inventory of the plan's component by exactly q and appends exactly one
\* InventoryTransaction, of type 'receipt', quantity q and balance_after the new
\* inventory of the component.
C11_ReceiptPosted ==
    (StatusUpdated /\ ThePlan.status = "received") =>
        LET c == ThePlan.component_id
            q == ThePlan.order_quantity
            n == Len(last.pre_transactions)
        IN /\ components[c].current_inventory = last.pre_components[c].current_inventory + q
           /\ \A d \in DOMAIN components \ {c} : components[d] = last.pre_components[d]
           /\ Len(transactions) = n + 1
           /\ SubSeq(transactions, 1, n) = last.pre_transactions
           /\ transactions[n + 1].transaction_type = "receipt"
           /\ transactions[n + 1].component_id = c
           /\ transactions[n + 1].quantity = q
           /\ transactions[n + 1].balance_after = components[c].current_inventory

\* A planned plan with a positive order quantity was marked received
C11_Witness ==
    /\ StatusUpdated
    /\ last.pre_status = "planned"
    /\ ThePlan.status = "received"
    /\ ThePlan.order_quantity > 0
    /\ transactions # <<>>
    /\ transactions[Len(transactions)].balance_after > ThePlan.order_quantity

\* C12: update_mrp_status whose resulting status is not 'received' changes only
\* the plan's status: every component's inventory and the InventoryTransaction
\* rows are as before.
C12_OtherStatusNoSideEffect ==
    (StatusUpdated /\ ThePlan.status # "received") =>
        /\ components = last.pre_components
        /\ transactions = last.pre_transactions
        /\ plans \ {ThePlan} = {p \in last.pre_plans : p.id # last.plan_id}
        /\ [ThePlan EXCEPT !.status = last.pre_status] \in last.pre_plans

\* A planned plan of a component with stock to receive was marked ordered
C12_Witness ==
    /\ StatusUpdated
    /\ last.pre_status = "planned"
    /\ ThePlan.status = "ordered"
    /\ ThePlan.order_quantity > 0
    /\ components = last.pre_components
    /\ transactions = last.pre_transactions

StatusRank(status) ==
    IF status = "planned" THEN 1 ELSE IF status = "ordered" THEN 2 ELSE 3

\* C13: a plan's status only moves forward along planned -> ordered -> received:
\* update_mrp_status never leaves a plan at an earlier status than it found, and
\* 'received' is final.
C13_StatusForwardOnly ==
    StatusUpdated => StatusRank(ThePlan.status) >= StatusRank(last.pre_status)

\* The fields of a plan that a generation computes
Snapshot(p) ==
    [id |-> p.id, order_id |-> p.order_id, component_id |-> p.component_id,
     total_required |-> p.total_required, current_inventory |-> p.current_inventory,
     net_requirement |-> p.net_requirement, order_quantity |-> p.order_quantity,
     order_date |-> p.order_date, expected_delivery |-> p.expected_delivery,
     estimated_cost |-> p.estimated_cost]

\* C20: adjust_inventory, update_component, the BOM edits and the receipts of
\* update_mrp_status leave total_required, the inventory snapshot, net_requirement,
\* order_quantity, order_date, expected_delivery and estimated_cost of every
\* existing plan as they were: only generate_mrp changes them.
C20_PlansAreSnapshots ==
    (last.op \in {"adjust_inventory", "update_component", "add_component_to_horn_type",
                  "remove_component_from_horn_type", "update_mrp_status"}) =>
        {Snapshot(p) : p \in plans} = {Snapshot(p) : p \in last.pre_plans}

\* A receipt moved the inventory away from what the plan recorded
C20_Witness ==
    /\ StatusUpdated
    /\ ThePlan.status = "received"
    /\ ThePlan.order_quantity > 0
    /\ ThePlan.current_inventory # components[ThePlan.component_id].current_inventory
    /\ ThePlan.net_requirement >
           ThePlan.total_required - components[ThePlan.component_id].current_inventory

----------------------------------------------------------------------------
(* The claims about regeneration and the summary *)

\* What a generation computes for a plan, the row id aside
Computed(p) ==
    [order_id |-> p.order_id, component_id |-> p.component_id,
     total_required |-> p.total_required, net_requirement |-> p.net_requirement,
     order_quantity |-> p.order_quantity, order_date |-> p.order_date,
     expected_delivery |-> p.expected_delivery, estimated_cost |-> p.estimated_cost,
     status |-> p.status]

\* C14: generate_mrp called twice in a row for the same order, with the components,
\* BOM, order, config and clock unchanged in between, leaves the same plans both
\* times: as many rows, with the same component, total_required, net_requirement,
\* order_quantity, order_date, expected_delivery, estimated_cost and status.
C14_Idempotent ==
    (Succeeded /\ last.after_success) =>
        /\ {Computed(p) : p \in PlansOf(plans, last.order_id)}
               = {Computed(p) : p \in PlansOf(last.pre_plans, last.order_id)}
        /\ Cardinality(PlansOf(plans, last.order_id))
               = Cardinality(PlansOf(last.pre_plans, last.order_id))

\* A second generation in a row that wrote two plans, one with something to order
C14_Witness ==
    /\ Succeeded
    /\ last.after_success
    /\ Cardinality(last.written) = 2
    /\ last.pre_plans # {}
    /\ \E p \in plans : p.order_quantity > 0

RECURSIVE CostOf(_, _)
CostOf(rows, ids) ==
    IF ids = {} THEN 0
    ELSE LET c == CHOOSE x \in ids : TRUE
             mine == {p \in rows : p.component_id = c}
             p == CHOOSE x \in mine : TRUE
         IN (IF mine = {} THEN 0 ELSE p.estimated_cost) + CostOf(rows, ids \ {c})

RECURSIVE Ordered(_, _)
Ordered(line_items, i) ==
    IF i = 0 THEN 0 ELSE line_items[i].quantity + Ordered(line_items, i - 1)

\* C19: the reply of a successful generate_mrp agrees with the plans it wrote: each
\* plan's estimated_cost is order_quantity x the component's unit_cost,
\* total_estimated_cost is the sum of the plans' estimated costs, total_components
\* is the number of plans, components_to_order is the number of plans with
\* order_quantity > 0, and order_quantity is the sum of the line items' quantities.
C19_SummaryConsistent ==
    Succeeded =>
        LET mine == PlansOf(plans, last.order_id)
        IN /\ \A p \in mine :
                  p.estimated_cost = p.order_quantity * components[p.component_id].unit_cost
           /\ last.summary.total_estimated_cost = CostOf(mine, CompIds)
           /\ last.summary.total_components = Cardinality(mine)
           /\ last.summary.components_to_order
                  = Cardinality({p \in mine : p.order_quantity > 0})
           /\ last.summary.order_quantity
                  = Ordered(TheOrder.line_items, Len(TheOrder.line_items))

\* Two plans, one to order and one not, and a cost to pay
C19_Witness ==
    /\ Succeeded
    /\ last.summary.total_components = 2
    /\ last.summary.components_to_order = 1
    /\ last.summary.total_estimated_cost > 0
    /\ \E p \in plans : p.order_quantity = 0

----------------------------------------------------------------------------
(* SpecSchedule: generate_mrp applied to every lead time of two components,
   safety stock and clock reading after the creation of the order *)

MaxLeadDays == 2
MaxSafetyDays == 2
MaxElapsedDays == 2

\* int(data.get('lead_time_days', 7)): any integer, the negative ones included
LeadTimes == (-1)..MaxLeadDays
SafetyStocks == 0..MaxSafetyDays

InitSchedule ==
    /\ \E l1 \in LeadTimes, l2 \in LeadTimes :
           components = (1 :> Component(0, 0, 0, l1, 2)) @@ (2 :> Component(0, 0, 2, l2, 3))
    /\ horn_types = HornTypeIds
    /\ bom = {BomRow(1, 1, 2), BomRow(1, 2, 1)}
    /\ \E start \in 0..(TicksPerDay - 1), elapsed \in 0..timedelta(MaxElapsedDays) :
           /\ orders = [o \in OrderIds |->
                           Order(start, start + timedelta(14), <<LineItem(1, 1)>>)]
           /\ now = start + elapsed
    /\ \E s \in SafetyStocks : config = {[DefaultConfig EXCEPT !.safety_stock_days = s]}
    /\ plans = {}
    /\ transactions = <<>>
    /\ procs = NoProcs
    /\ last = Other("init")

SpecSchedule == InitSchedule /\ [][NextGenerate]_vars

\* C18: every plan written by generate_mrp has order_date = production_start -
\* (L + S) days when that is not earlier than now and order_date = now otherwise,
\* and expected_delivery = order_date + L days, with production_start = the
\* order's creation date + S days, L the lead time of the plan's component and S
\* the configured safety-stock days; the summary reports that production_start.
C18_Schedule ==
    Succeeded =>
        LET S == TheConfig.safety_stock_days
            start == TheOrder.order_date + S * TicksPerDay
        IN /\ last.summary.production_start = start
           /\ \A p \in PlansOf(plans, last.order_id) :
                  LET L == components[p.component_id].lead_time_days
                      back == start - (L + S) * TicksPerDay
                  IN /\ p.order_date = (IF back >= now THEN back ELSE now)
                     /\ p.expected_delivery = p.order_date + L * TicksPerDay

\* Two components of different lead times, one whose order date lies in the
\* past and is moved to now, one whose order date is kept
C18_Witness ==
    /\ Succeeded
    /\ TheConfig.safety_stock_days > 0
    /\ \E p \in plans, q \in plans :
           /\ components[p.component_id].lead_time_days > 0
           /\ p.order_date = now
           /\ p.expected_delivery > now
           /\ TheOrder.order_date - components[q.component_id].lead_time_days * TicksPerDay > now
           /\ q.order_date > now

----------------------------------------------------------------------------
(* SpecOrders: two orders over the same components, generated, regenerated
   and updated in any order *)

TwoOrders == {1, 2}

InitOrders ==
    /\ components = (1 :> Component(0, 0, 0, 1, 2)) @@ (2 :> Component(0, 0, 2, 2, 3))
    /\ horn_types = HornTypeIds
    /\ bom = {BomRow(1, 1, 2), BomRow(1, 2, 1), BomRow(2, 1, 1)}
    /\ orders = (1 :> Order(0, timedelta(14), <<LineItem(1, 1)>>))
                    @@ (2 :> Order(0, timedelta(14), <<LineItem(2, 2)>>))
    /\ config = {DefaultConfig}
    /\ plans = {}
    /\ transactions = <<>>
    /\ procs = NoProcs
    /\ now = timedelta(1)
    /\ last = Other("init")

NextOrders ==
    \/ \E o \in TwoOrders : generate_mrp(o)
    \/ \E i \in 1..MaxPlanId : update_mrp_status(i, {"ordered"})
    \/ \E v \in StockEdits : update_component(1, v)
    \/ update_order(1, "deadline", timedelta(0))

SpecOrders == InitOrders /\ [][NextOrders]_vars

\* C15: after a successful generate_mrp the order's persisted plans are exactly
\* the rows that generation wrote, all 'planned', none of an earlier generation
\* left, and the plans of every other order are the rows they were; a rejected
\* generate_mrp leaves the plans of the most recent successful one.
C15_LatestGenerationOnly ==
    /\ Succeeded =>
           /\ PlansOf(plans, last.order_id) = last.written
           /\ \A p \in PlansOf(plans, last.order_id) : p.status = "planned"
           /\ \A p \in PlansOf(plans, last.order_id), q \in PlansOf(plans, last.order_id) :
                  p.component_id = q.component_id => p = q
           /\ plans \ PlansOf(plans, last.order_id)
                  = last.pre_plans \ PlansOf(last.pre_plans, last.order_id)
    /\ (Generated /\ ~Succeeded) => plans = last.pre_plans

\* An order regenerated over plans of an earlier generation that had been
\* updated, next to updated plans of the other order
C15_Witness ==
    /\ Succeeded
    /\ \E p \in PlansOf(last.pre_plans, last.order_id) :
           p.status # "planned" /\ p \notin plans
    /\ \E p \in plans : p.order_id # last.order_id /\ p.status # "planned"
    /\ \E p \in last.written, q \in PlansOf(last.pre_plans, last.order_id) :
           p.component_id = q.component_id /\ p.net_requirement # q.net_requirement

----------------------------------------------------------------------------
(* SpecReceipts: two update_mrp_status requests served at the same time, each
   in the session of its own worker *)

Receivers == {1, 2}

IdleReceiver ==
    [pc |-> "idle", plan_id |-> 0, status |-> "", component_id |-> 0,
     inventory |-> 0, opening |-> <<>>]

\* The components table as it was when the first of the requests in flight began
opening(p) ==
    IF \E q \in Receivers \ {p} : procs[q].pc # "idle"
    THEN procs[CHOOSE q \in Receivers \ {p} : procs[q].pc # "idle"].opening
    ELSE components

\* Lines 736-742: the worker loads the plan, sets its status in its session and
\* loads the component, whose inventory it now holds as a Python value
load_update_mrp_status(p, plan_id, data) ==
    /\ procs[p].pc = "idle"
    /\ \A q \in Receivers \ {p} : procs[q].plan_id # plan_id
    /\ \E plan \in plans :
           /\ plan.id = plan_id
           /\ posts_receipt(new_status(data, plan.status))
           /\ plan.component_id \in DOMAIN components
           /\ procs' = [procs EXCEPT ![p] =
                  [pc |-> "loaded", plan_id |-> plan_id,
                   status |-> new_status(data, plan.status),
                   component_id |-> plan.component_id,
                   inventory |-> components[plan.component_id].current_inventory,
                   opening |-> opening(p)]]
    /\ UNCHANGED <<components, horn_types, bom, orders, config, plans, now, last, transactions>>

\* Lines 744-755: the worker adds the quantity to the inventory it loaded, adds
\* the receipt and commits: the UPDATE carries the value computed in Python
commit_update_mrp_status(p) ==
    /\ procs[p].pc = "loaded"
    /\ Len(transactions) < MaxTransactions
    /\ \E plan \in plans :
           /\ plan.id = procs[p].plan_id
           /\ LET updated == set_status(plan, procs[p].status)
                  cid == procs[p].component_id
                  balance == receipt_balance(procs[p].inventory, updated.order_quantity)
              IN /\ plans' = (plans \ {plan}) \cup {updated}
                 /\ components' = [components EXCEPT ![cid].current_inventory = balance]
                 /\ transactions' = Append(transactions,
                        InventoryTransaction(Len(transactions) + 1, cid, "receipt",
                            updated.order_quantity, balance, <<"MRP", plan.id>>,
                            <<"Order", plan.order_id>>))
                 /\ last' = Moved("update_mrp_status", plan.id, plan.status)
    /\ procs' = [procs EXCEPT ![p].pc = "done"]
    /\ UNCHANGED <<horn_types, bom, orders, config, now>>

InitReceipts ==
    /\ components = (1 :> Component(0, 0, 0, 1, 2)) @@ (2 :> Component(0, 0, 2, 2, 3))
    /\ horn_types = HornTypeIds
    /\ bom = {BomRow(1, 1, 2), BomRow(1, 2, 1), BomRow(2, 1, 1)}
    /\ orders = (1 :> Order(0, timedelta(14), <<LineItem(1, 1)>>))
                    @@ (2 :> Order(0, timedelta(14), <<LineItem(2, 2)>>))
    /\ config = {DefaultConfig}
    /\ plans = {}
    /\ transactions = <<>>
    /\ procs = [p \in Receivers |-> IdleReceiver]
    /\ now = timedelta(1)
    /\ last = Other("init")

NextReceipts ==
    \/ \E o \in TwoOrders :
           (\A p \in Receivers : procs[p].pc = "idle") /\ generate_mrp(o)
    \/ \E p \in Receivers, i \in 1..MaxPlanId : load_update_mrp_status(p, i, {"received"})
    \/ \E p \in Receivers : commit_update_mrp_status(p)

SpecReceipts == InitReceipts /\ [][NextReceipts]_vars

\* The plan a worker updated
ReceivedBy(p) == CHOOSE plan \in plans : plan.id = procs[p].plan_id

\* C17: when two update_mrp_status requests to 'received' for two plans of the
\* same component have both committed, whatever the interleaving, the component's
\* inventory is its inventory before the two plus both order quantities, and the
\* balance_after of the later receipt is that inventory.
C17_NoLostUpdate ==
    ((\A p \in Receivers : procs[p].pc = "done")
        /\ procs[1].component_id = procs[2].component_id) =>
        LET c == procs[1].component_id
        IN /\ components[c].current_inventory
                  = procs[1].opening[c].current_inventory
                        + ReceivedBy(1).order_quantity + ReceivedBy(2).order_quantity
           /\ transactions[Len(transactions)].balance_after
                  = components[c].current_inventory

----------------------------------------------------------------------------
(* SpecReader: generate_mrp served statement by statement in the session of
   one worker while another worker serves get_mrp_plans *)

IdleGenerator ==
    [pc |-> "idle", order_id |-> 0, session |-> {}, old |-> {},
     reply |-> Other("generate_mrp")]

\* The mrp_plans rows a statement of another session finds: the rows of the
\* request in flight are not committed, and the statement does not find them
read_uncommitted(committed, inflight) ==
    IF inflight.pc = "idle" THEN committed ELSE inflight.session

read_committed(committed, inflight) == committed

\* Lines 612-636: the requests that pass the first two checks delete the order's
\* rows in the session
delete_generate_mrp(order_id) ==
    /\ procs.pc = "idle"
    /\ order_id \in DOMAIN orders
    /\ next_id(delete_plans(plans, order_id)) <= MaxPlanId
    /\ config # {}
    /\ ~ no_requirements(component_requirements(orders[order_id].line_items, bom, horn_types))
    /\ procs' = [pc |-> "deleted", order_id |-> order_id,
                 session |-> delete_plans(plans, order_id),
                 old |-> PlansOf(plans, order_id),
                 reply |-> Other("generate_mrp")]
    /\ UNCHANGED <<components, horn_types, bom, orders, config, plans, now, last, transactions>>

\* Lines 638-699: the two checks, whose rejection ends the request without a
\* commit, and the loop that adds the new rows to the session
add_generate_mrp ==
    /\ procs.pc = "deleted"
    /\ LET order_id == procs.order_id
           order == orders[order_id]
           cfg == CHOOSE r \in config : TRUE
           requirements == component_requirements(order.line_items, bom, horn_types)
           quantity == total_quantity(order)
           total_days == days(order.deadline - order.order_date)
           working_days == calculate_working_days(order.order_date, order.deadline,
                               cfg.working_days_per_week)
           daily == daily_production(quantity, working_days)
       IN IF working_days <= 0
          THEN /\ last' = Response("generate_mrp", order_id, "InfeasibleSchedule",
                              requirements, total_days, working_days, 0, 0, 0, plans)
               /\ plans' = teardown_session(plans, procs.session)
               /\ procs' = IdleGenerator
          ELSE IF capacity_exceeded(daily, cfg.daily_production_capacity)
          THEN /\ last' = Response("generate_mrp", order_id, "CapacityExceeded",
                              requirements, total_days, working_days, daily,
                              required_days(quantity, cfg.daily_production_capacity),
                              working_days, plans)
               /\ plans' = teardown_session(plans, procs.session)
               /\ procs' = IdleGenerator
          ELSE
          LET mrp_plans == new_plans(procs.session, order_id, requirements, order, cfg, now)
              start == production_start(order.order_date, cfg.safety_stock_days)
          IN /\ procs' = [procs EXCEPT
                    !.pc = "added",
                    !.session = procs.session \cup mrp_plans,
                    !.reply = [Response("generate_mrp", order_id, "none", requirements,
                                        total_days, working_days, daily, 0, 0, plans)
                               EXCEPT !.written = mrp_plans,
                                      !.after_success = repeats(last, order_id),
                                      !.summary = summary(quantity, working_days, daily,
                                          start, components_in(DOMAIN requirements),
                                          mrp_plans)]]
             /\ UNCHANGED <<plans, last>>
    /\ UNCHANGED <<components, horn_types, bom, orders, config, now, transactions>>

\* Lines 701-718: db.session.commit() and the reply
commit_generate_mrp ==
    /\ procs.pc = "added"
    /\ plans' = procs.session
    /\ last' = procs.reply
    /\ procs' = IdleGenerator
    /\ UNCHANGED <<components, horn_types, bom, orders, config, now, transactions>>

\* GET /api/mrp/order/<order_id>
get_mrp_plans(order_id) ==
    /\ order_id \in DOMAIN orders
    /\ last' = [Kept("get_mrp_plans") EXCEPT
                    !.order_id = order_id,
                    !.observed = PlansOf(read_committed(plans, procs), order_id)]
    /\ UNCHANGED <<components, horn_types, bom, orders, config, plans, now, transactions, procs>>

InitReader ==
    /\ components = (1 :> Component(0, 0, 0, 1, 2)) @@ (2 :> Component(0, 0, 2, 2, 3))
    /\ horn_types = HornTypeIds
    /\ bom = {BomRow(1, 1, 2), BomRow(1, 2, 1), BomRow(2, 1, 1)}
    /\ orders = (1 :> Order(0, timedelta(14), <<LineItem(1, 1)>>))
                    @@ (2 :> Order(0, timedelta(14), <<LineItem(2, 2)>>))
    /\ config = {DefaultConfig}
    /\ plans = {}
    /\ transactions = <<>>
    /\ procs = IdleGenerator
    /\ now = timedelta(1)
    /\ last = Other("init")

NextReader ==
    \/ \E o \in TwoOrders : delete_generate_mrp(o)
    \/ add_generate_mrp
    \/ commit_generate_mrp
    \/ \E o \in TwoOrders : get_mrp_plans(o)
    \/ \E v \in StockEdits : update_component(1, v)
    \/ update_order(1, "deadline", timedelta(0))

SpecReader == InitReader /\ [][NextReader]_vars

Read == last.op = "get_mrp_plans"

Regenerating(order_id) == procs.pc # "idle" /\ procs.order_id = order_id

\* C16: a get_mrp_plans served while generate_mrp regenerates the order's plans
\* finds the complete set of rows the order had when the generation began, never
\* no row and never rows of the new set; served outside a generation it finds
\* the complete committed set.
C16_ReaderSeesOldOrNew ==
    Read =>
        IF Regenerating(last.order_id)
        THEN /\ last.observed = procs.old
             /\ procs.old # {} => last.observed # {}
             /\ last.observed \cap (procs.session \ procs.old) = {}
        ELSE last.observed = PlansOf(plans, last.order_id)

\* A read during a regeneration whose session already holds new rows that
\* differ from the old ones
C16_Witness ==
    /\ Read
    /\ Regenerating(last.order_id)
    /\ procs.pc = "added"
    /\ last.observed # {}
    /\ PlansOf(procs.session, last.order_id) # last.observed
    /\ \E p \in procs.session \ plans : p.order_id = last.order_id /\ p.net_requirement = 0

----------------------------------------------------------------------------
(* The claims about validation and lot sizing *)

\* The error of the earliest step of generate_mrp that fails on the tables as
\* they are: config, explosion, working days, capacity
EarliestFailure(order) ==
    IF config = {} THEN "ConfigMissing"
    ELSE IF Referenced(order) = {} THEN "EmptyDemand"
    ELSE LET W_days == calculate_working_days(order.order_date, order.deadline,
                           TheConfig.working_days_per_week)
         IN IF W_days <= 0 THEN "InfeasibleSchedule"
            ELSE IF total_quantity(order) > W_days * TheConfig.daily_production_capacity
                 THEN "CapacityExceeded"
                 ELSE "none"

\* C22: generate_mrp validates in the order config exists, explosion non-empty,
\* working days positive, capacity not exceeded: the error it reports is that of
\* the earliest failing step, and with no config it fails without creating one.
C22_ValidationOrder ==
    Generated =>
        /\ last.error = EarliestFailure(TheOrder)
        /\ last.error = "ConfigMissing" => (config = {} /\ plans = last.pre_plans)

\* No config, no BOM row and no working day at once: the missing config is reported
C22_Witness ==
    /\ Generated
    /\ config = {}
    /\ Referenced(TheOrder) = {}
    /\ TheOrder.deadline - TheOrder.order_date < timedelta(1)
    /\ last.error = "ConfigMissing"

\* The smallest whole multiple of m that is >= n, for m > 0
SmallestMultiple(m, n) == CHOOSE x \in n..(n + m - 1) : x % m = 0

\* The quantity lot sizing asks for, before the max-stock cap
LotSized(net, moq) ==
    IF net = 0 THEN 0 ELSE IF moq > 0 THEN SmallestMultiple(moq, net) ELSE net

\* C23: when the max-stock cap does not apply (max_stock_level = 0, or the
\* lot-sized quantity is within max_stock_level - current_inventory), order_quantity
\* is 0 if net_requirement = 0, the smallest whole multiple of
\* minimum_order_quantity that is >= net_requirement if minimum_order_quantity > 0,
\* and net_requirement itself if minimum_order_quantity = 0.
C23_LotSizing ==
    Succeeded =>
        \A p \in PlansOf(plans, last.order_id) :
            LET c == components[p.component_id]
                lot == LotSized(p.net_requirement, c.minimum_order_quantity)
            IN (c.max_stock_level = 0 \/ lot <= c.max_stock_level - c.current_inventory)
                   => p.order_quantity = lot

\* A net requirement rounded up to a larger multiple of the MOQ, next to a
\* component with no MOQ that orders its net requirement
C23_Witness ==
    /\ Succeeded
    /\ \E p \in plans :
           /\ components[p.component_id].minimum_order_quantity = 2
           /\ components[p.component_id].max_stock_level = 0
           /\ p.net_requirement = 3
           /\ p.order_quantity = 4
    /\ \E p \in plans :
           /\ components[p.component_id].minimum_order_quantity = 0
           /\ p.net_requirement > 0
           /\ p.order_quantity = p.net_requirement

----------------------------------------------------------------------------
(* The claims about the inventory ledger *)

\* C25: a plan's order_quantity is added to its component's inventory at most
\* once: an update_mrp_status on a plan that is already received (a repeated
\* 'received', or a request without a status) adds nothing to the inventory and
\* appends no second receipt with reference MRP-<plan id>.
C25_ReceivedAtMostOnce ==
    (StatusUpdated /\ last.pre_status = "received") =>
        /\ components = last.pre_components
        /\ transactions = last.pre_transactions
        /\ Cardinality({i \in DOMAIN transactions :
               /\ transactions[i].transaction_type = "receipt"
               /\ transactions[i].reference = <<"MRP", last.plan_id>>}) <= 1

----------------------------------------------------------------------------
(* The claims about the schedule against the clock *)

\* C28: for a component of lead time L >= 0 and a generation at or after the
\* order's creation, production_start - (L + S) days is the creation date - L
\* days, never later than now: the persisted order_date is now and
\* expected_delivery is now + L days, whatever the safety-stock days are.
C28_OrderDateIsNow ==
    Succeeded =>
        \A p \in PlansOf(plans, last.order_id) :
            LET L == components[p.component_id].lead_time_days
                S == TheConfig.safety_stock_days
            IN (L >= 0 /\ now >= TheOrder.order_date) =>
                   /\ last.summary.production_start - (L + S) * TicksPerDay
                          = TheOrder.order_date - L * TicksPerDay
                   /\ TheOrder.order_date - L * TicksPerDay <= now
                   /\ p.order_date = now
                   /\ p.expected_delivery = now + L * TicksPerDay

\* Generated after the day of creation with a safety stock, two lead times
C28_Witness ==
    /\ Succeeded
    /\ TheConfig.safety_stock_days = MaxSafetyDays
    /\ now > TheOrder.order_date + TicksPerDay
    /\ \E p \in plans, q \in plans :
           /\ components[p.component_id].lead_time_days = 0
           /\ components[q.component_id].lead_time_days > 0
           /\ p.order_date = now /\ p.expected_delivery = now
           /\ q.order_date = now /\ q.expected_delivery > now

\* C29: every plan persisted by generate_mrp (of a component with a lead time
\* L >= 0) has expected_delivery no later than the order's production_start, the
\* creation date + the safety-stock days.
C29_DeliveredBeforeProduction ==
    Succeeded =>
        \A p \in PlansOf(plans, last.order_id) :
            components[p.component_id].lead_time_days >= 0 =>
                p.expected_delivery <= TheOrder.order_date
                                           + TheConfig.safety_stock_days * TicksPerDay

\* The quantities of the first n transactions that are of component c, summed
RECURSIVE Posted(_, _)
Posted(c, n) ==
    IF n = 0 THEN 0
    ELSE (IF transactions[n].component_id = c THEN transactions[n].quantity ELSE 0)
             + Posted(c, n - 1)

\* C26: for every component with a transaction, the balance_after of its most
\* recent InventoryTransaction is its current_inventory, and current_inventory is
\* the inventory before its first transaction plus the quantities of all its
\* transactions, after any update_mrp_status receipts (no update_component ran).
C26_LedgerConsistent ==
    \A c \in DOMAIN components :
        LET mine == {i \in DOMAIN transactions : transactions[i].component_id = c}
        IN mine # {} =>
               LET first == CHOOSE i \in mine : \A j \in mine : i <= j
                   latest == CHOOSE i \in mine : \A j \in mine : j <= i
                   initial == transactions[first].balance_after - transactions[first].quantity
               IN /\ transactions[latest].balance_after = components[c].current_inventory
                  /\ components[c].current_inventory
                         = initial + Posted(c, Len(transactions))

----------------------------------------------------------------------------
(* SpecOverstock: the plans generate_mrp writes for every stock position of a
   component, then marked received *)

InitOverstock ==
    /\ \E position \in StockPositions :
           components = (1 :> position) @@ (2 :> Component(0, 0, 2, 2, 3))
    /\ horn_types = HornTypeIds
    /\ bom = {BomRow(1, 1, 1), BomRow(1, 2, 1)}
    /\ orders = [o \in OrderIds |-> Order(0, timedelta(14), <<LineItem(1, 1)>>)]
    /\ config = {DefaultConfig}
    /\ plans = {}
    /\ transactions = <<>>
    /\ procs = NoProcs
    /\ now = timedelta(1)
    /\ last = Other("init")

NextOverstock ==
    \/ \E o \in OrderIds : generate_mrp(o)
    \/ \E i \in PlanIds : update_mrp_status(i, {"received"})

SpecOverstock == InitOverstock /\ [][NextOverstock]_vars

\* C27: marking a plan written by generate_mrp received never decreases a
\* component's current_inventory: after the call every inventory is at least
\* what it was before.
C27_ReceiptNeverDecreases ==
    (StatusUpdated /\ ThePlan.status = "received") =>
        \A c \in DOMAIN components :
            components[c].current_inventory >= last.pre_components[c].current_inventory

----------------------------------------------------------------------------
(* SpecGenerators: generate_mrp served by two workers at the same time, each
   statement by statement in its own session *)

Generators == {1, 2}

IdleWorker ==
    [pc |-> "idle", order_id |-> 0, deleted |-> {}, added |-> {},
     reply |-> Other("generate_mrp")]

\* The rows a session has pending get their ids when the INSERTs are flushed,
\* after the rows the table holds by then
flush(committed, added) ==
    LET base == next_id(committed)
        rank(p) == Cardinality({q \in added : q.component_id < p.component_id})
    IN {[p EXCEPT !.id = base + rank(p)] : p \in added}

\* Lines 612-636: the DELETE of the order's committed rows, which waits while
\* another transaction holds one of them deleted
generate_mrp_delete(w, order_id) ==
    /\ procs[w].pc = "idle"
    /\ order_id \in DOMAIN orders
    /\ next_id(plans) + Cardinality(CompIds) <= MaxPlanId + 1
    /\ config # {}
    /\ ~ no_requirements(component_requirements(orders[order_id].line_items, bom, horn_types))
    /\ \A v \in Generators \ {w} : procs[v].deleted \cap PlansOf(plans, order_id) = {}
    /\ procs' = [procs EXCEPT ![w] =
           [pc |-> "deleted", order_id |-> order_id,
            deleted |-> PlansOf(plans, order_id), added |-> {},
            reply |-> Other("generate_mrp")]]
    /\ UNCHANGED <<components, horn_types, bom, orders, config, plans, now, last, transactions>>

\* Lines 638-699: the two checks, whose rejection ends the request without a
\* commit, and the loop of db.session.add
generate_mrp_add(w) ==
    /\ procs[w].pc = "deleted"
    /\ LET order_id == procs[w].order_id
           order == orders[order_id]
           cfg == CHOOSE r \in config : TRUE
           requirements == component_requirements(order.line_items, bom, horn_types)
           quantity == total_quantity(order)
           total_days == days(order.deadline - order.order_date)
           working_days == calculate_working_days(order.order_date, order.deadline,
                               cfg.working_days_per_week)
           daily == daily_production(quantity, working_days)
       IN IF working_days <= 0
          THEN /\ last' = Response("generate_mrp", order_id, "InfeasibleSchedule",
                              requirements, total_days, working_days, 0, 0, 0, plans)
               /\ procs' = [procs EXCEPT ![w] = IdleWorker]
          ELSE IF capacity_exceeded(daily, cfg.daily_production_capacity)
          THEN /\ last' = Response("generate_mrp", order_id, "CapacityExceeded",
                              requirements, total_days, working_days, daily,
                              required_days(quantity, cfg.daily_production_capacity),
                              working_days, plans)
               /\ procs' = [procs EXCEPT ![w] = IdleWorker]
          ELSE
          LET mrp_plans == new_plans(plans \ procs[w].deleted, order_id, requirements,
                                     order, cfg, now)
              start == production_start(order.order_date, cfg.safety_stock_days)
          IN /\ procs' = [procs EXCEPT
                    ![w].pc = "added",
                    ![w].added = mrp_plans,
                    ![w].reply = [Response("generate_mrp", order_id, "none", requirements,
                                           total_days, working_days, daily, 0, 0, plans)
                                  EXCEPT !.summary = summary(quantity, working_days, daily,
                                             start, components_in(DOMAIN requirements),
                                             mrp_plans)]]
             /\ UNCHANGED last
    /\ UNCHANGED <<components, horn_types, bom, orders, config, plans, now, transactions>>

\* Lines 701-718: db.session.commit() flushes the INSERTs and commits the
\* DELETE and the INSERTs of this session; the rows other sessions committed
\* meanwhile stay
generate_mrp_commit(w) ==
    /\ procs[w].pc = "added"
    /\ LET kept == plans \ procs[w].deleted
           written == flush(kept, procs[w].added)
       IN /\ plans' = kept \cup written
          /\ last' = [procs[w].reply EXCEPT !.written = written, !.pre_plans = plans]
    /\ procs' = [procs EXCEPT ![w] = IdleWorker]
    /\ UNCHANGED <<components, horn_types, bom, orders, config, now, transactions>>

InitGenerators ==
    /\ components = (1 :> Component(0, 0, 0, 1, 2)) @@ (2 :> Component(0, 0, 2, 2, 3))
    /\ horn_types = HornTypeIds
    /\ bom = {BomRow(1, 1, 2), BomRow(1, 2, 1), BomRow(2, 1, 1)}
    /\ orders = (1 :> Order(0, timedelta(14), <<LineItem(1, 1)>>))
                    @@ (2 :> Order(0, timedelta(14), <<LineItem(2, 2)>>))
    /\ config = {DefaultConfig}
    /\ plans = {}
    /\ transactions = <<>>
    /\ procs = [w \in Generators |-> IdleWorker]
    /\ now = timedelta(1)
    /\ last = Other("init")

NextGenerators ==
    \/ \E w \in Generators, o \in TwoOrders : generate_mrp_delete(w, o)
    \/ \E w \in Generators : generate_mrp_add(w)
    \/ \E w \in Generators : generate_mrp_commit(w)

SpecGenerators == InitGenerators /\ [][NextGenerators]_vars

\* C30: when two generate_mrp calls for the same order run at the same time, in
\* every interleaving of their delete, insert and commit steps the order ends
\* with one MRPPlan per required component, never two plans of one
\* (order, component) pair.
C30_OnePlanPerPair ==
    (\A w \in Generators : procs[w].pc = "idle") =>
        \A p \in plans, q \in plans :
            (p.order_id = q.order_id /\ p.component_id = q.component_id) => p = q

----------------------------------------------------------------------------
(* SpecIntegrity: the routes that create, update and delete components, horn
   types, BOM entries and orders, with requests that name an id no row has *)

\* The ids a request can name: those of the rows and the next one, of no row
ComponentRequests == CompIds \cup {Cardinality(CompIds) + 1}

HornTypeRequests == HornTypeIds \cup {Cardinality(HornTypeIds) + 1}

InitIntegrity ==
    /\ components = (1 :> Component(0, 0, 0, 1, 2)) @@ (2 :> Component(0, 2, 2, 2, 3))
    /\ horn_types = HornTypeIds
    /\ bom = {BomRow(1, 1, 1)}
    /\ orders = [o \in OrderIds |-> Order(0, timedelta(14), <<LineItem(1, 1)>>)]
    /\ config = {DefaultConfig}
    /\ plans = {}
    /\ transactions = <<>>
    /\ procs = NoProcs
    /\ now = timedelta(1)
    /\ last = Other("init")

NextIntegrity ==
    \/ \E h \in HornTypeIds, c \in ComponentRequests : add_component_to_horn_type(h, c, 1)
    \/ \E h \in HornTypeIds, c \in ComponentRequests : remove_component_from_horn_type(h, c)
    \/ \E o \in OrderIds, h \in HornTypeRequests :
           update_order(o, "line_items", <<LineItem(h, 1)>>)
    \/ \E o \in OrderIds : generate_mrp(o)
    \/ \E c \in CompIds : delete_component(c)
    \/ \E h \in HornTypeIds : delete_horn_type(h)
    \/ \E o \in OrderIds : delete_order(o)

SpecIntegrity == InitIntegrity /\ [][NextIntegrity]_vars

\* C24: in every state reached through the create, update and delete routes,
\* every BOM entry references an existing component and every line item an
\* existing horn type, and delete_component never removes a component that a
\* BOM entry or an MRP plan still references.
C24_ReferencesExist ==
    /\ \A r \in bom : r.component_id \in DOMAIN components
    /\ \A o \in DOMAIN orders : \A i \in 1..Len(orders[o].line_items) :
           orders[o].line_items[i].horn_type_id \in horn_types
    /\ (last.op = "delete_component" /\ last.error = "none") =>
           /\ last.component_id \notin DOMAIN components
           /\ ~ \E r \in bom : r.component_id = None
           /\ ~ \E p \in last.pre_plans : p.component_id = last.component_id

----------------------------------------------------------------------------
(* SpecAudit: the routes that write inventory, plans, components and orders,
   from a stock of three units with one receipt pending *)

InitAudit ==
    /\ components = (1 :> Component(0, 0, 0, 1, 2)) @@ (2 :> Component(0, 2, 2, 2, 3))
    /\ horn_types = HornTypeIds
    /\ bom = {BomRow(1, 1, 1)}
    /\ orders = [o \in OrderIds |-> Order(0, timedelta(14), <<LineItem(1, 1)>>)]
    /\ config = {DefaultConfig}
    /\ plans = {}
    /\ transactions = <<>>
    /\ procs = NoProcs
    /\ now = timedelta(1)
    /\ last = Other("init")

NextAudit ==
    \/ \E o \in OrderIds : generate_mrp(o)
    \/ \E i \in PlanIds : update_mrp_status(i, {"received"})
    \/ \E c \in CompIds, a \in Adjustments : adjust_inventory(c, a)
    \/ \E c \in CompIds : update_component(c, 0)
    \/ \E h \in HornTypeIds, c \in CompIds : remove_component_from_horn_type(h, c)
    \/ \E o \in OrderIds : update_order(o, "line_items", <<LineItem(1, 2)>>)
    \/ \E c \in CompIds : delete_component(c)
    \/ \E o \in OrderIds : delete_order(o)

SpecAudit == InitAudit /\ [][NextAudit]_vars

\* C21: inventory transactions are append-only: whatever route runs (receipt,
\* adjustment, plan generation, component or order edit or deletion), the
\* transactions recorded before it are all still there afterwards, unmodified
\* and in the same order; a step can only add records after them.
C21_AppendOnly ==
    [][/\ Len(transactions') >= Len(transactions)
       /\ SubSeq(transactions', 1, Len(transactions)) = transactions]_vars

\* delete_component was asked to delete a component that has transactions, and
\* a transaction of it is on record
C21_Witness ==
    /\ last.op = "delete_component"
    /\ \E i \in DOMAIN transactions : transactions[i].component_id = last.component_id
    /\ \E i \in DOMAIN last.pre_transactions :
           last.pre_transactions[i].component_id = last.component_id

====
